---- MODULE Spec2Model ----
(***************************************************************************)
(* Request signing and call dispatch of rackspace_api.Connection           *)
(* (src/rackspace_api.py).  One Connection issues calls one at a time;     *)
(* each call runs _call in the order of its source lines: sign, build the  *)
(* request, open it, receive the transport's outcome, normalise it.        *)
(*                                                                         *)
(* Text is a sequence of one-character strings, so that str(), quote_plus  *)
(* and startswith are computed character by character.  The RateLimited    *)
(* wrapper of contact_add and mailbox_edit only delays the call; its clock *)
(* is not part of the model.                                               *)
(***************************************************************************)
EXTENDS Integers, Sequences, FiniteSets, TLC

VARIABLES
    py,          \* major version of the interpreter that imported the module
    user_key,    \* Connection.user_key
    secret_key,  \* Connection.secret_key
    pc,          \* position of the current call
    path,        \* the path a resource method hands to _call
    args,        \* the parameter dict as the caller handed it to _call
    params,      \* the same dict while _call runs (del mutates it)
    timestamp,   \* local variable timestamp of _call
    signature,   \* local variable signature of _call (the header value)
    request,     \* local variable request of _call
    sent,        \* the requests the opener has put on the wire in this call
    reply,       \* what the transport produced for the last request
    outcome      \* how the call ended: returned value or raised exception

vars == << py, user_key, secret_key, pc, path, args, params, timestamp, signature,
           request, sent, reply, outcome >>

----------------------------------------------------------------------------
(* Bounds of the model *)

MaxBodyLen == 2     \* longest response body, in characters
MaxListLen == 2     \* longest list-valued parameter
MaxRedirections == 2 \* requests one call may put on the wire before the opener gives up

----------------------------------------------------------------------------
(* Python values *)

None == "<None>"

\* The values a parameter takes here: None, a str, a list of str; t is the
\* Python type.
PyNone == [t |-> "NoneType", s |-> <<>>, items |-> <<>>]
PyStr(chars) == [t |-> "str", s |-> chars, items |-> <<>>]
PyList(elems) == [t |-> "list", s |-> <<>>, items |-> elems]

PUT == <<"P", "U", "T">>
POST == <<"P", "O", "S", "T">>
GET == <<"G", "E", "T">>

\* repr() of a str element inside a list: the text between single quotes.
PyRepr(chars) == <<"'">> \o chars \o <<"'">>

RECURSIVE JoinRepr(_)
JoinRepr(elems) ==
    IF elems = <<>> THEN <<>>
    ELSE IF Len(elems) = 1 THEN PyRepr(elems[1])
    ELSE PyRepr(elems[1]) \o <<",", " ">> \o JoinRepr(Tail(elems))

\* str(v), as urlencode applies it to a value.
str(v) ==
    CASE v.t = "NoneType" -> <<"N", "o", "n", "e">>
      [] v.t = "str" -> v.s
      [] v.t = "list" -> <<"[">> \o JoinRepr(v.items) \o <<"]">>

----------------------------------------------------------------------------
(* urlencode, as the interpreter's library computes it *)

\* quote_plus of one character: letters, digits and "_.-" pass, a space
\* becomes "+", anything else becomes its %XX escape.
QuoteChar(c) ==
    CASE c = " " -> "+"
      [] c = "[" -> "%5B"
      [] c = "]" -> "%5D"
      [] c = "'" -> "%27"
      [] c = "," -> "%2C"
      [] OTHER -> c

quote_plus(chars) == [i \in 1..Len(chars) |-> QuoteChar(chars[i])]

\* The key=value occurrences urlencode emits for one item of the dict.
\* Without doseq every value goes through str(); with doseq a str is quoted
\* as it is, a value with a len() gives one occurrence per element, and a
\* value without one (None) goes through str().
Occurrences(k, v, doseq) ==
    IF ~doseq THEN << <<k, quote_plus(str(v))>> >>
    ELSE IF v.t = "str" THEN << <<k, quote_plus(v.s)>> >>
    ELSE IF v.t = "list"
        THEN [i \in 1..Len(v.items) |-> <<k, quote_plus(str(PyStr(v.items[i])))>>]
    ELSE << <<k, quote_plus(str(v))>> >>

\* Iteration order of the dict's items.
KeyOrder == <<"method", "test", "a", "displayName", "externalEmail">>

RECURSIVE EncodeFrom(_, _, _)
EncodeFrom(i, query, doseq) ==
    IF i > Len(KeyOrder) THEN <<>>
    ELSE (IF KeyOrder[i] \in DOMAIN query
             THEN Occurrences(KeyOrder[i], query[KeyOrder[i]], doseq)
             ELSE <<>>)
         \o EncodeFrom(i + 1, query, doseq)

urlencode(query, doseq) == EncodeFrom(1, query, doseq)

\* dict.get(k): the value, or None when the key is absent.
Get(d, k) == IF k \in DOMAIN d THEN d[k] ELSE PyNone

\* del d[k]
Del(d, k) == [x \in DOMAIN d \ {k} |-> d[x]]

\* d[k] = v
Put(d, k, v) == [x \in DOMAIN d \cup {k} |-> IF x = k THEN v ELSE d[x]]

----------------------------------------------------------------------------
(* Inputs *)

\* The interpreters the import block supports.
PyVersions == {2, 3}

\* Credentials: absent (the constructor default), empty, or a key.
UserKeys == {None, "", "ukey"}
SecretKeys == {None, "", "skey"}

host == "api.emailsrvr.com"
domain == "domain.tld"

\* Connection.user_agent
user_agent(v) == IF v = 2 THEN "Python/2.7.18 rackspace_api/?"
                 ELSE "Python/3.11.6 rackspace_api/?"

\* Readings of time.strftime('%Y%m%d%H%M%S').
Timestamps == {"20240101000000", "20240101000001"}

\* List values: the first n elements of x, y, x, y, ...
ListElems(n) == [i \in 1..n |-> IF i % 2 = 1 THEN <<"x">> ELSE <<"y">>]

KwargKeys == {"method", "test", "a"}

ValuesOf(k) ==
    CASE k = "method" -> {PyStr(PUT), PyStr(POST), PyStr(GET)}
      [] k = "test" -> {PyStr(<<"y">>)}
      [] k = "a" -> {PyNone, PyStr(<<"x">>)}
                    \cup {PyList(ListElems(n)) : n \in 0..MaxListLen}

AllValues == UNION {ValuesOf(k) : k \in KwargKeys}

\* The keyword arguments a caller may pass to a resource method.
Kwargs ==
    UNION {{f \in [K -> AllValues] : \A k \in K : f[k] \in ValuesOf(k)} :
           K \in SUBSET KwargKeys}

----------------------------------------------------------------------------
(* Signing *)

Truthy(x) == x \notin {None, ""}

\* time.strftime(...).encode('utf-8'): a str on Python 2, bytes on Python 3.
Encoded(v, text) == [t |-> IF v = 2 THEN "str" ELSE "bytes", s |-> text]

\* Connection._generateSignature: the empty token when a key is missing; a
\* TypeError when the str keys are concatenated with a bytes timestamp;
\* otherwise base64(sha1(user_key + user_agent + timestamp + secret_key)),
\* kept as the quadruple it is computed from.
_generateSignature(uk, sk, v, ts) ==
    IF ~Truthy(uk) \/ ~Truthy(sk) THEN [raised |-> FALSE, token |-> <<>>]
    ELSE IF ts.t # "str" THEN [raised |-> TRUE, token |-> <<>>]
    ELSE [raised |-> FALSE,
          token |-> <<"b64sha1", uk, user_agent(v), ts.s, sk>>]

\* ':'.join((user_key, timestamp, token)) raises TypeError unless every item
\* is a str.
JoinRaises(uk, ts) == uk = None \/ ts.t # "str"

----------------------------------------------------------------------------
(* Building the request *)

ApiUrl(h, pth) == [scheme |-> "https", host |-> h, prefix |-> "v1", path |-> pth]

\* The URL the PUT branch switches to when params carries test=y.
TestUrl == [scheme |-> "http", host |-> "httpbin.org", prefix |-> "", path |-> <<"put">>]

NoRequest ==
    [verb |-> "", url |-> ApiUrl("", <<>>), hasQuery |-> FALSE, query |-> <<>>,
     hasBody |-> FALSE, body |-> <<>>, content_type |-> ""]

\* The strip forgotten: the dict is encoded with its method entry.
StripMethod_kept(p) == p

\* del params['method'] of the PUT and POST branches.
StripMethod(p) == Del(p, "method")

\* The PUT branch's test hook: the URL it sends to and the params it keeps.
PutUrl(h, pth, p) ==
    IF Get(p, "test") = PyStr(<<"y">>) THEN TestUrl ELSE ApiUrl(h, pth)

PutParams(p) ==
    IF Get(p, "test") = PyStr(<<"y">>) THEN Del(p, "test") ELSE p

\* Request(url, data=urlencode(params)) with the form Content-Type and
\* get_method overridden.
FormRequest(verb, url, p) ==
    [verb |-> verb, url |-> url, hasQuery |-> FALSE, query |-> <<>>,
     hasBody |-> TRUE, body |-> urlencode(p, FALSE),
     content_type |-> "application/x-www-form-urlencoded"]

\* The URL string "https://host/v1/path?params" handed to opener.open, which
\* sends it as a GET without a body.
QueryRequest(h, pth, p) ==
    [verb |-> "GET", url |-> ApiUrl(h, pth), hasQuery |-> TRUE,
     query |-> urlencode(p, TRUE), hasBody |-> FALSE, body |-> <<>>,
     content_type |-> ""]

\* Lines 300-327 of _call: the params left after the branch has run, and the
\* request it built.  Request is imported on Python 2 only: the PUT and POST
\* branches raise NameError on Python 3.
BuildRequest(v, h, pth, p) ==
    IF Get(p, "method") = PyStr(PUT)
        THEN LET p1 == StripMethod(p) IN
             [params |-> PutParams(p1), raised |-> v # 2,
              request |-> FormRequest("PUT", PutUrl(h, pth, p1), PutParams(p1))]
    ELSE IF Get(p, "method") = PyStr(POST)
        THEN LET p1 == StripMethod(p) IN
             [params |-> p1, raised |-> v # 2,
              request |-> FormRequest("POST", ApiUrl(h, pth), p1)]
    ELSE [params |-> p, raised |-> FALSE, request |-> QueryRequest(h, pth, p)]

----------------------------------------------------------------------------
(* The transport and the opener *)

BadByte == "\\xff"          \* a byte that is not valid UTF-8
BodyChars == {"{", "}", BadByte}

RECURSIVE SeqsUpTo(_, _)
SeqsUpTo(S, n) ==
    IF n = 0 THEN {<<>>}
    ELSE LET shorter == SeqsUpTo(S, n - 1) IN
         shorter \cup {Append(b, c) : b \in {x \in shorter : Len(x) = n - 1}, c \in S}

Bodies == SeqsUpTo(BodyChars, MaxBodyLen)

DeliveredCodes == {200, 201, 202, 204}
RedirectCodes == {301, 302, 303, 307}
ErrorCodes == {404}

NoReply == [kind |-> "none", status |-> 0, body |-> <<>>, location |-> FALSE]

\* The responses a server can give: a 204 carries no body, and a redirect
\* may or may not name a Location.
Responses ==
    {[kind |-> "response", status |-> c, body |-> b, location |-> FALSE] :
        c \in (DeliveredCodes \ {204}) \cup ErrorCodes, b \in Bodies}
    \cup {[kind |-> "response", status |-> 204, body |-> <<>>, location |-> FALSE]}
    \cup {[kind |-> "response", status |-> c, body |-> b, location |-> l] :
        c \in RedirectCodes, b \in Bodies, l \in BOOLEAN}

\* The handler not overriding anything: like HTTPRedirectHandler, it answers
\* with a new request for the redirect target.
redirect_response_inherited(code) == "request"

\* DontRedirect.redirect_response: raise HTTPError for the four redirect
\* codes, fall off the end (return None) for any other.
redirect_response(code) ==
    IF code \in {301, 302, 303, 307} THEN "raise" ELSE "None"

\* What the opener does with a response: hand it to the caller (2xx), follow
\* a redirect for which redirect_response returned a new request, or raise
\* HTTPError.
OpenerVerdict(r) ==
    IF r.status \in 200..299 THEN "deliver"
    ELSE IF r.status \in RedirectCodes /\ r.location
            /\ redirect_response(r.status) \notin {"raise", "None"}
        THEN "follow"
    ELSE "HTTPError"

\* Where a followed redirect would go.
RedirectTarget == [scheme |-> "http", host |-> "elsewhere.example", prefix |-> "", path |-> <<>>]

----------------------------------------------------------------------------
(* Exceptions and the except clauses of _call *)

NoCode == <<>>                  \* RackspaceError.code is None
Code(n) == <<n>>

NoData == [t |-> "NoneType", s |-> <<>>]

Exc(cls, code, message, fp, body) ==
    [cls |-> cls, code |-> code, message |-> message, fp |-> fp, body |-> body]

\* issubclass(a, b) among the exception classes in play.
IsSubclass(a, b) ==
    \/ a = b
    \/ b = "Exception"
    \/ a = "HTTPError" /\ b = "URLError"

\* The except clauses of _call's try statement, in source order.
Clauses == <<"URLError", "HTTPError", "RackspaceError", "Exception">>

\* The clause Python runs: the first one whose class the exception is an
\* instance of.
FirstMatch(order, cls) ==
    order[CHOOSE i \in 1..Len(order) :
            /\ IsSubclass(cls, order[i])
            /\ \A j \in 1..(i - 1) : ~IsSubclass(cls, order[j])]

\* fp.readlines(): the body split after each newline; the bodies here hold
\* none.
readlines(body) == IF body = <<>> THEN <<>> ELSE <<body>>

Raise(cls, code, message) ==
    [kind |-> "raise", exc |-> cls, code |-> code, message |-> message, data |-> NoData]

Return(data) ==
    [kind |-> "return", exc |-> "", code |-> NoCode, message |-> <<>>, data |-> data]

NoOutcome ==
    [kind |-> "none", exc |-> "", code |-> NoCode, message |-> <<>>, data |-> NoData]

\* What leaves _call when exception e is raised inside the try statement.
\* A URLError has no readlines attribute unless it is an HTTPError built
\* with a response (fp): the AttributeError raised inside the clause is not
\* caught by the clauses after it.
Except(e) ==
    LET clause == FirstMatch(Clauses, e.cls) IN
    CASE clause = "URLError" ->
            IF e.fp
                THEN Raise("RackspaceError", Code(500),
                           <<"Rackspace response: ">> \o str(PyList(readlines(e.body))))
                ELSE Raise("AttributeError", NoCode, <<>>)
      [] clause = "HTTPError" -> Raise("RackspaceError", e.code, e.body)
      [] clause = "RackspaceError" -> Raise("RackspaceError", e.code, e.message)
      [] clause = "Exception" -> Raise("RackspaceError", NoCode, <<e.cls>>)

----------------------------------------------------------------------------
(* Reading and interpreting a delivered response *)

\* bytes.decode('utf-8') fails on a byte that is not UTF-8.
DecodeFails(body) == \E i \in 1..Len(body) : body[i] = BadByte

startswith(chars, c) == Len(chars) > 0 /\ chars[1] = c

\* json.loads: over the characters of BodyChars the only JSON document is
\* the empty object.
JsonValid(chars) == chars = <<"{", "}">>
JsonValue(chars) == [t |-> "dict", s |-> <<>>]

Accepted == [t |-> "str", s |-> <<"{'response': '202 Accepted'}">>]

\* "{'code': '%d', 'response': '%s'}" % (code, result)
Wrapped(code, result) ==
    [t |-> "str",
     s |-> <<"{'code': '", ToString(code), "', 'response': '">> \o result \o <<"'}">>]

\* The 202 test forgotten in the first branch: an accepted response whose body
\* starts with "{" is parsed.
Normalize_parses202(code, body) ==
    IF DecodeFails(body)
        THEN Except(Exc("UnicodeDecodeError", NoCode, <<>>, FALSE, <<>>))
    ELSE IF code \notin {200, 202, 204}
        THEN Except(Exc("RackspaceError", Code(500), body, FALSE, <<>>))
    ELSE IF startswith(body, "{")
        THEN IF JsonValid(body) THEN Return(JsonValue(body))
             ELSE Except(Exc("ValueError", NoCode, <<>>, FALSE, <<>>))
    ELSE IF code = 202 THEN Return(Accepted)
    ELSE Return(Wrapped(code, body))

\* Lines 337-347 of _call and the except clause their exceptions reach.
Normalize(code, body) ==
    IF DecodeFails(body)
        THEN Except(Exc("UnicodeDecodeError", NoCode, <<>>, FALSE, <<>>))
    ELSE IF code \notin {200, 202, 204}
        THEN Except(Exc("RackspaceError", Code(500), body, FALSE, <<>>))
    ELSE IF code # 202 /\ startswith(body, "{")
        THEN IF JsonValid(body) THEN Return(JsonValue(body))
             ELSE Except(Exc("ValueError", NoCode, <<>>, FALSE, <<>>))
    ELSE IF code = 202 THEN Return(Accepted)
    ELSE Return(Wrapped(code, body))

\* The outcome of opener.open(request) and of the lines after it, for a
\* reply the opener does not follow.
Dispatch(r) ==
    CASE r.kind = "URLError" -> Except(Exc("URLError", NoCode, <<>>, FALSE, <<>>))
      [] r.kind = "Exception" -> Except(Exc("BadStatusLine", NoCode, <<>>, FALSE, <<>>))
      [] r.kind = "response" ->
            IF OpenerVerdict(r) = "deliver" THEN Normalize(r.status, r.body)
            ELSE Except(Exc("HTTPError", Code(r.status), <<>>, TRUE, r.body))

----------------------------------------------------------------------------
(* The state machine *)

EmptyDict == [k \in {} |-> PyNone]
NoTimestamp == [t |-> "", s |-> ""]

conn == << py, user_key, secret_key >>
locals == << timestamp, signature, request, sent, reply, outcome >>

\* Connection.__init__ under either interpreter; no call is in progress.
Init ==
    /\ py \in PyVersions
    /\ user_key \in UserKeys
    /\ secret_key \in SecretKeys
    /\ pc = "idle"
    /\ path = <<>>
    /\ args = EmptyDict
    /\ params = EmptyDict
    /\ timestamp = NoTimestamp
    /\ signature = <<>>
    /\ request = NoRequest
    /\ sent = <<>>
    /\ reply = NoReply
    /\ outcome = NoOutcome

\* list_domains(**kwargs): _call(self.host, "customers/me/domains", kwargs)
list_domains == \E kwargs \in Kwargs :
    /\ pc = "idle"
    /\ pc' = "called"
    /\ path' = <<"customers", "me", "domains">>
    /\ params' = kwargs
    /\ args' = params'
    /\ UNCHANGED << conn, locals >>

\* contact_add(user_name, display_name, external_email, **kwargs)
contact_add == \E kwargs \in Kwargs, display_name \in {PyStr(<<"x">>)},
                  external_email \in {PyStr(<<"e">>)}, user_name \in {"jdoe"} :
    /\ pc = "idle"
    /\ pc' = "called"
    /\ path' = <<"customers", "me", "domains", domain, "ex", "contacts", user_name>>
    /\ params' = Put(Put(Put(kwargs, "displayName", display_name),
                         "externalEmail", external_email),
                     "method", PyStr(POST))
    /\ args' = params'
    /\ UNCHANGED << conn, locals >>

\* mailbox_edit(mailbox_name, **kwargs)
mailbox_edit == \E kwargs \in Kwargs, mailbox_name \in {"jdoe"} :
    /\ pc = "idle"
    /\ pc' = "called"
    /\ path' = <<"customers", "me", "domains", domain, "ex", "mailboxes", mailbox_name>>
    /\ params' = Put(kwargs, "method", PyStr(PUT))
    /\ args' = params'
    /\ UNCHANGED << conn, locals >>

\* Lines 297-298: read the clock, sign, join the header value.  Both run
\* before the try statement, so a TypeError raised here leaves _call as it
\* is.
Sign == \E now \in Timestamps :
    LET ts == Encoded(py, now)
        sig == _generateSignature(user_key, secret_key, py, ts) IN
    /\ pc = "called"
    /\ timestamp' = ts
    /\ IF sig.raised \/ JoinRaises(user_key, ts)
          THEN /\ outcome' = Raise("TypeError", NoCode, <<>>)
               /\ pc' = "done"
               /\ UNCHANGED signature
          ELSE /\ signature' = <<user_key, ts.s, sig.token>>
               /\ pc' = "signed"
               /\ UNCHANGED outcome
    /\ UNCHANGED << conn, path, args, params, request, sent, reply >>

\* Lines 300-327.
Build ==
    LET b == BuildRequest(py, host, path, params) IN
    /\ pc = "signed"
    /\ params' = b.params
    /\ IF b.raised
          THEN /\ outcome' = Raise("NameError", NoCode, <<>>)
               /\ pc' = "done"
               /\ UNCHANGED request
          ELSE /\ request' = b.request
               /\ pc' = "built"
               /\ UNCHANGED outcome
    /\ UNCHANGED << conn, path, args, timestamp, signature, sent, reply >>

\* What goes on the wire: the request and the opener's addheaders.
Wire(req, sig, v) ==
    [verb |-> req.verb, url |-> req.url, hasQuery |-> req.hasQuery,
     query |-> req.query, hasBody |-> req.hasBody, body |-> req.body,
     content_type |-> req.content_type,
     X_Api_Signature |-> sig, User_Agent |-> user_agent(v),
     Accept_Encoding |-> "gzip, deflate", Accept |-> "application/json"]

\* Lines 330-336: build the opener with DontRedirect and its headers, and
\* send the request.
Open ==
    /\ pc = "built"
    /\ sent' = Append(sent, Wire(request, signature, py))
    /\ pc' = "awaiting"
    /\ UNCHANGED << conn, path, args, params, timestamp, signature, request, reply, outcome >>

\* opener.open(request) gets the server's answer, and lines 337-355 run on
\* it.  A redirect the opener follows sends the request again, with the same
\* headers, to the redirect target, and waits for that server's answer.
ServerResponds == \E r \in Responses :
    /\ pc = "awaiting"
    /\ reply' = r
    /\ IF OpenerVerdict(r) = "follow" /\ Len(sent) < MaxRedirections
          THEN /\ sent' = Append(sent, [Wire(request, signature, py) EXCEPT
                                           !.url = RedirectTarget, !.hasQuery = FALSE,
                                           !.query = <<>>])
               /\ UNCHANGED << pc, outcome >>
          ELSE /\ outcome' = Dispatch(r)
               /\ pc' = "done"
               /\ UNCHANGED sent
    /\ UNCHANGED << conn, path, args, params, timestamp, signature, request >>

\* opener.open(request) fails at the transport level (a URLError that is no
\* HTTPError), and the except clauses run.
TransportFails ==
    /\ pc = "awaiting"
    /\ reply' = [NoReply EXCEPT !.kind = "URLError"]
    /\ outcome' = Dispatch(reply')
    /\ pc' = "done"
    /\ UNCHANGED << conn, path, args, params, timestamp, signature, request, sent >>

\* The exchange breaks with an exception that is no URLError (a malformed
\* status line, a read timeout), and the except clauses run.
TransportBreaks ==
    /\ pc = "awaiting"
    /\ reply' = [NoReply EXCEPT !.kind = "Exception"]
    /\ outcome' = Dispatch(reply')
    /\ pc' = "done"
    /\ UNCHANGED << conn, path, args, params, timestamp, signature, request, sent >>

\* The result or the exception reaches the caller; the Connection keeps
\* nothing of the call.
Finish ==
    /\ pc = "done"
    /\ pc' = "idle"
    /\ path' = <<>>
    /\ args' = EmptyDict
    /\ params' = EmptyDict
    /\ timestamp' = NoTimestamp
    /\ signature' = <<>>
    /\ request' = NoRequest
    /\ sent' = <<>>
    /\ reply' = NoReply
    /\ outcome' = NoOutcome
    /\ UNCHANGED conn

Next ==
    \/ list_domains
    \/ contact_add
    \/ mailbox_edit
    \/ Sign
    \/ Build
    \/ Open
    \/ ServerResponds
    \/ TransportFails
    \/ TransportBreaks
    \/ Finish

Spec == Init /\ [][Next]_vars

----------------------------------------------------------------------------
(* Properties *)

\* The key=value occurrences request i carries, in its query string and in
\* its body.
Transmitted(i) == sent[i].query \o sent[i].body

OccurrencesOf(k, pairs) == SelectSeq(pairs, LAMBDA pr : pr[1] = k)

Answered == pc = "done" /\ reply.kind = "response"

RaisedRackspaceError == outcome.kind = "raise" /\ outcome.exc = "RackspaceError"

\* C1: when the server answers with an HTTP error status (4xx/5xx), the call
\* raises RackspaceError whose code is the server's status code and whose
\* message is the raw response body.
C1_HttpErrorKeepsStatus ==
    (Answered /\ reply.status >= 400) =>
        /\ RaisedRackspaceError
        /\ outcome.code = Code(reply.status)
        /\ outcome.message = reply.body

\* C2: when sending fails at the transport level (a URLError that is no HTTP
\* status error), the call raises RackspaceError with code 500 and a message
\* describing the failure.
C2_TransportFailureIs500 ==
    (pc = "done" /\ reply.kind = "URLError") =>
        /\ RaisedRackspaceError
        /\ outcome.code = Code(500)
        /\ outcome.message # <<>>

\* C3: every call ends by returning a result or by raising RackspaceError;
\* no other exception kind reaches the caller.
C3_OnlyRackspaceErrorEscapes ==
    pc = "done" => (outcome.kind = "return" \/ RaisedRackspaceError)

\* C4: every request a call sends goes to https://<host>/v1/<path>, whatever
\* the verb and the parameter map.
C4_FixedSchemeAndHost ==
    \A i \in 1..Len(sent) : sent[i].url = ApiUrl(host, path)

C6_NoneNeverTransmitted ==
    \A i \in 1..Len(sent) : \A k \in DOMAIN args :
        args[k] = PyNone => OccurrencesOf(k, Transmitted(i)) = <<>>

\* C7 as stated: the reserved method key is never transmitted, whatever its
\* value, and method=PUT makes the request a PUT with a form-encoded body and
\* no query string.
C7_MethodNeverTransmitted ==
    \A i \in 1..Len(sent) :
        /\ OccurrencesOf("method", Transmitted(i)) = <<>>
        /\ Get(args, "method") = PyStr(PUT) =>
              /\ sent[i].verb = "PUT"
              /\ sent[i].hasBody /\ ~sent[i].hasQuery
              /\ sent[i].content_type = "application/x-www-form-urlencoded"

\* C7 as amended: a method entry whose value is PUT or POST is never
\* transmitted, and method=PUT makes the request a PUT with a form-encoded
\* body and no query string.
C7_PutPostMethodStripped ==
    \A i \in 1..Len(sent) :
        /\ Get(args, "method") \in {PyStr(PUT), PyStr(POST)} =>
              OccurrencesOf("method", Transmitted(i)) = <<>>
        /\ Get(args, "method") = PyStr(PUT) =>
              /\ sent[i].verb = "PUT"
              /\ sent[i].hasBody /\ ~sent[i].hasQuery
              /\ sent[i].content_type = "application/x-www-form-urlencoded"

C7_Witness ==
    /\ Len(sent) = 1
    /\ Get(args, "method") = PyStr(PUT)
    /\ "a" \in DOMAIN args
    /\ sent[1].verb = "PUT"
    /\ OccurrencesOf("a", sent[1].body) # <<>>
    /\ OccurrencesOf("method", sent[1].body) = <<>>

\* C8: for every verb, a list-valued parameter with n elements is transmitted
\* as n occurrences of its key, one per element, in order.
C8_ListAsRepeatedKey ==
    \A i \in 1..Len(sent) : \A k \in DOMAIN args :
        args[k].t = "list" =>
            OccurrencesOf(k, Transmitted(i))
                = [j \in 1..Len(args[k].items) |-> <<k, quote_plus(args[k].items[j])>>]

\* C9 as stated: for a response with status 200, 202 or 204 the call returns
\* the parsed structure (status 200, body starting with "{"), the accepted
\* placeholder (status 202), or the payload wrapping status and raw body
\* (status 204, or a body that does not start with "{").
C9_ReturnFixedByStatusAndShape ==
    (Answered /\ reply.status \in {200, 202, 204}) =>
        /\ outcome.kind = "return"
        /\ reply.status = 202 => outcome.data = Accepted
        /\ (reply.status = 200 /\ startswith(reply.body, "{")) => outcome.data.t = "dict"
        /\ (reply.status # 202 /\ (reply.status = 204 \/ ~startswith(reply.body, "{"))) =>
              outcome.data = Wrapped(reply.status, reply.body)

\* C9 as amended: a body that is not UTF-8 makes the call raise RackspaceError
\* with code None.  Otherwise status 202 returns the accepted placeholder;
\* status 200 or 204 with a body starting with "{" returns the parsed structure
\* when the body is a JSON document and raises RackspaceError with code None
\* when it is not; status 200 or 204 with any other body returns the payload
\* wrapping the status and the raw body.
C9_ReturnOrNoneCodeError ==
    (Answered /\ reply.status \in {200, 202, 204}) =>
        IF DecodeFails(reply.body)
            THEN RaisedRackspaceError /\ outcome.code = NoCode
        ELSE IF reply.status = 202
            THEN outcome.kind = "return" /\ outcome.data = Accepted
        ELSE IF startswith(reply.body, "{")
            THEN IF JsonValid(reply.body)
                    THEN outcome.kind = "return" /\ outcome.data = JsonValue(reply.body)
                    ELSE RaisedRackspaceError /\ outcome.code = NoCode
        ELSE outcome.kind = "return" /\ outcome.data = Wrapped(reply.status, reply.body)

C9_Witness ==
    /\ Answered /\ reply.status = 200 /\ reply.body = <<"{", "}">>
    /\ outcome.kind = "return" /\ outcome.data.t = "dict"

\* C10: with an empty or absent user_key or secret_key the signature is the
\* empty token and the call still transmits an X-Api-Signature header
\* userKey:timestamp: carrying the timestamp that was passed to the signer.
C10_UnsignedCallStillSent ==
    (pc = "done" /\ (~Truthy(user_key) \/ ~Truthy(secret_key))) =>
        /\ Len(sent) >= 1
        /\ sent[1].X_Api_Signature[2] = timestamp.s
        /\ sent[1].X_Api_Signature[3] = <<>>

====
